---- MODULE Spec2Model ----
(***************************************************************************)
(* Model of the Tinig-Baybayin repository:                                 *)
(*   - tinig-baybayin/baybayin.py : BaybayinTransliterator (normalizer,    *)
(*     regex syllable tokenizer, syllable encoder, transliterate loop);    *)
(*   - app.py : main's handling of the temporary audio file;               *)
(*   - translate_gsm8k.py : main's auto-resume over the output file.       *)
(*                                                                         *)
(* A Python str is modelled as a sequence of one-character strings.  The   *)
(* characters outside ASCII are named: "ntilde" is U+00F1, "NTILDE" is     *)
(* U+00D1, "U2102" is the double-struck capital C (a letter of category Lu *)
(* for which str.lower() has no mapping), and "U17xx" are the Baybayin     *)
(* code points.                                                            *)
(***************************************************************************)
EXTENDS Naturals, Sequences, FiniteSets

VARIABLES
    \* BaybayinTransliterator.transliterate: its argument, position, locals
    text, pc, normalized, words, widx, syllables, baybayin_syllables,
    baybayin_words, result,
    \* app.py main: position, the two inputs, the path variable, the temp
    \* directory, every os.unlink call made, the number of runs
    apc, audio_value, uploaded_file, audio_file_path, disk, unlinked, next_file,
    runs,
    \* translate_gsm8k.py main: position, the output file (one dataset index
    \* per line), args.threshold, start_index, the loop index, the indices
    \* processed so far and at the start of the run, the scores, the runs
    bpc, out_file, threshold, start_index, idx, processed, processed_before,
    similarity, bruns

tvars == <<text, pc, normalized, words, widx, syllables, baybayin_syllables,
           baybayin_words, result>>

avars == <<apc, audio_value, uploaded_file, audio_file_path, disk, unlinked,
           next_file, runs>>

bvars == <<bpc, out_file, threshold, start_index, idx, processed,
           processed_before, similarity, bruns>>

vars == <<tvars, avars, bvars>>

----------------------------------------------------------------------------
\* Bounds of the checked inputs

MaxLen == 4

MaxLenNorm == 3

MaxLenNative == 4

MaxLenCollapse == 3

\* Input characters of Spec: native letters, a foreign upper-case letter,
\* a digit, a punctuation mark and two kinds of whitespace.
Alphabet == {"a", "i", "n", "g", "s", "t", "X", "1", "!", " ", "\t"}

\* Input characters of SpecNorm: every key of the replacement map, upper-case
\* letters, the substitution targets, a digit and a space.
NormAlphabet == {"c", "f", "j", "q", "v", "x", "z", "ntilde",
                 "C", "X", "J", "NTILDE", "A", "U2102",
                 "k", "s", "d", "y", "1", " "}

\* Input characters of SpecNative: native letters only.
NativeAlphabet == {"a", "e", "i", "o", "u", "n", "g", "s", "t"}

\* Input characters of SpecCollapse: the letters of the pairs l/r, e/i, o/u
\* and a, b, t.
CollapseAlphabet == {"l", "r", "e", "i", "o", "u", "a", "b", "t"}

SeqsUpTo(S, n) == UNION {[1..k -> S] : k \in 0..n}

----------------------------------------------------------------------------
\* Glyph tables (BaybayinTransliterator.__init__)

vowels ==
    [c \in {"a", "e", "i", "o", "u"} |->
        CASE c = "a" -> "U1700"
          [] c = "e" -> "U1701"
          [] c = "i" -> "U1701"
          [] c = "o" -> "U1702"
          [] c = "u" -> "U1702"]

consonants_LaGlyph ==
    [k \in {<<"k">>, <<"g">>, <<"n", "g">>, <<"t">>, <<"d">>, <<"n">>, <<"p">>,
            <<"b">>, <<"m">>, <<"y">>, <<"r">>, <<"l">>, <<"w">>, <<"s">>,
            <<"h">>} |->
        CASE k = <<"k">> -> "U1703"
          [] k = <<"g">> -> "U1704"
          [] k = <<"n", "g">> -> "U1705"
          [] k = <<"t">> -> "U1706"
          [] k = <<"d">> -> "U1707"
          [] k = <<"n">> -> "U1708"
          [] k = <<"p">> -> "U1709"
          [] k = <<"b">> -> "U170A"
          [] k = <<"m">> -> "U170B"
          [] k = <<"y">> -> "U170C"
          [] k = <<"r">> -> "U170D"
          [] k = <<"l">> -> "U170E"
          [] k = <<"w">> -> "U170F"
          [] k = <<"s">> -> "U1710"
          [] k = <<"h">> -> "U1711"]

consonants ==
    [k \in {<<"k">>, <<"g">>, <<"n", "g">>, <<"t">>, <<"d">>, <<"n">>, <<"p">>,
            <<"b">>, <<"m">>, <<"y">>, <<"r">>, <<"l">>, <<"w">>, <<"s">>,
            <<"h">>} |->
        CASE k = <<"k">> -> "U1703"
          [] k = <<"g">> -> "U1704"
          [] k = <<"n", "g">> -> "U1705"
          [] k = <<"t">> -> "U1706"
          [] k = <<"d">> -> "U1707"
          [] k = <<"n">> -> "U1708"
          [] k = <<"p">> -> "U1709"
          [] k = <<"b">> -> "U170A"
          [] k = <<"m">> -> "U170B"
          [] k = <<"y">> -> "U170C"
          [] k = <<"r">> -> "U170D"
          [] k = <<"l">> -> "U170D"
          [] k = <<"w">> -> "U170F"
          [] k = <<"s">> -> "U1710"
          [] k = <<"h">> -> "U1711"]

kudlit_i == "U1712"

kudlit_o == "U1713"

virama == "U1714"

----------------------------------------------------------------------------
\* normalize_text

\* str.lower() on one character.  Every character of the input alphabets
\* that has a lower-case mapping is listed; the others, "U2102" among them,
\* are left as they are.
Lower(c) ==
    CASE c = "A" -> "a"
      [] c = "C" -> "c"
      [] c = "J" -> "j"
      [] c = "X" -> "x"
      [] c = "NTILDE" -> "ntilde"
      [] OTHER -> c

lower(s) == [i \in 1..Len(s) |-> Lower(s[i])]

\* The replacement map in the dict's insertion order with x -> cs: a target
\* that holds a key handled before it.
replacements_XtoCS ==
    << <<"c", <<"k">> >>, <<"f", <<"p">> >>, <<"j", <<"d", "y">> >>,
       <<"q", <<"k">> >>, <<"v", <<"b">> >>, <<"x", <<"c", "s">> >>,
       <<"z", <<"s">> >>, <<"ntilde", <<"n", "y">> >> >>

\* The replacement map, in the dict's insertion order (the order of the loop).
replacements ==
    << <<"c", <<"k">> >>, <<"f", <<"p">> >>, <<"j", <<"d", "y">> >>,
       <<"q", <<"k">> >>, <<"v", <<"b">> >>, <<"x", <<"k", "s">> >>,
       <<"z", <<"s">> >>, <<"ntilde", <<"n", "y">> >> >>

\* str.replace(foreign, tagalog) for a one-character foreign
RECURSIVE replace(_, _, _)
replace(s, foreign, tagalog) ==
    IF s = <<>> THEN <<>>
    ELSE (IF Head(s) = foreign THEN tagalog ELSE <<Head(s)>>)
         \o replace(Tail(s), foreign, tagalog)

\* the loop over replacements.items(), from entry k on
RECURSIVE replace_all(_, _)
replace_all(s, k) ==
    IF k > Len(replacements) THEN s
    ELSE replace_all(replace(s, replacements[k][1], replacements[k][2]), k + 1)

normalize_text(s) == replace_all(lower(s), 1)

----------------------------------------------------------------------------
\* str.split() without arguments: the maximal runs of non-whitespace

IsSpace(c) == c \in {" ", "\t"}

\* str.split(" "): splits at each single space and only there
RECURSIVE split_on_space(_, _, _)
split_on_space(s, cur, acc) ==
    IF s = <<>> THEN Append(acc, cur)
    ELSE IF Head(s) = " " THEN split_on_space(Tail(s), <<>>, Append(acc, cur))
    ELSE split_on_space(Tail(s), Append(cur, Head(s)), acc)

split_SingleSpace(s) == split_on_space(s, <<>>, <<>>)

RECURSIVE split_scan(_, _, _)
split_scan(s, cur, acc) ==
    IF s = <<>> THEN (IF cur = <<>> THEN acc ELSE Append(acc, cur))
    ELSE IF IsSpace(Head(s))
         THEN split_scan(Tail(s), <<>>, IF cur = <<>> THEN acc ELSE Append(acc, cur))
         ELSE split_scan(Tail(s), Append(cur, Head(s)), acc)

split(s) == split_scan(s, <<>>, <<>>)

----------------------------------------------------------------------------
\* tokenize_syllables: re.finditer over '(CV)|(V)|(C)'

\* r'[aeiou]'
vowel_class == {"a", "e", "i", "o", "u"}

\* r'[kgtndbpmyrlwsh]'
consonant_class ==
    {"k", "g", "t", "n", "d", "b", "p", "m", "y", "r", "l", "w", "s", "h"}

\* the alternation with the single letter before the digraph
consonants_pattern_SingleFirst == <<"class", "ng">>

\* r'(?:ng|[kgtndbpmyrlwsh])': the alternatives in the order the regex
\* engine tries them
consonants_pattern == <<"ng", "class">>

\* patterns = [CV, V, C], joined by '|' in this order
patterns == <<"CV", "V", "C">>

\* length matched at position i by one alternative of the consonant group
\* (0: no match)
AltLen(s, i, alt) ==
    IF alt = "ng"
    THEN (IF i + 1 <= Len(s) /\ s[i] = "n" /\ s[i + 1] = "g" THEN 2 ELSE 0)
    ELSE (IF i <= Len(s) /\ s[i] \in consonant_class THEN 1 ELSE 0)

Positive(l) == l > 0

\* the lengths the consonant group can match at i, in the order tried
ConsLens(s, i) ==
    SelectSeq([k \in 1..Len(consonants_pattern) |->
                   AltLen(s, i, consonants_pattern[k])], Positive)

\* length matched at i by one of the three patterns; the engine backtracks
\* into the consonant group when the vowel after its first choice fails
PatternLen(s, i, p) ==
    LET lens == ConsLens(s, i)
        VowelAfter(l) == i + l <= Len(s) /\ s[i + l] \in vowel_class
        cv == SelectSeq(lens, VowelAfter)
    IN  CASE p = "CV" -> (IF cv = <<>> THEN 0 ELSE Head(cv) + 1)
          [] p = "V"  -> (IF i <= Len(s) /\ s[i] \in vowel_class THEN 1 ELSE 0)
          [] p = "C"  -> (IF lens = <<>> THEN 0 ELSE Head(lens))

\* length of the match of the whole alternation at i: the first pattern
\* that matches wins (0: no pattern matches at i)
match_len(s, i) ==
    LET ls == SelectSeq([k \in 1..Len(patterns) |-> PatternLen(s, i, patterns[k])],
                        Positive)
    IN  IF ls = <<>> THEN 0 ELSE Head(ls)

\* re.finditer: scan from i; where nothing matches the engine moves on by
\* one character, which belongs to no match
RECURSIVE finditer(_, _, _)
finditer(s, i, tokens) ==
    IF i > Len(s) THEN tokens
    ELSE LET l == match_len(s, i)
         IN  IF l = 0 THEN finditer(s, i + 1, tokens)
             ELSE finditer(s, i + l, Append(tokens, SubSeq(s, i, i + l - 1)))

tokenize_syllables(s) == finditer(s, 1, <<>>)

----------------------------------------------------------------------------
\* syllable_to_baybayin

\* the encoder with the kudlit test for 'e' left out
syllable_to_baybayin_NoE(syllable) ==
    IF syllable = <<>> THEN <<>>
    ELSE IF Len(syllable) = 1 /\ syllable[1] \in DOMAIN vowels
         THEN <<vowels[syllable[1]]>>
    ELSE IF syllable \in DOMAIN consonants
         THEN <<consonants[syllable], virama>>
    ELSE LET ng == Len(syllable) >= 2 /\ syllable[1] = "n" /\ syllable[2] = "g"
             base == IF ng THEN <<consonants[<<"n", "g">>]>>
                     ELSE IF <<syllable[1]>> \in DOMAIN consonants
                          THEN <<consonants[<<syllable[1]>>]>>
                          ELSE <<>>
             rest == IF ng THEN SubSeq(syllable, 3, Len(syllable))
                     ELSE Tail(syllable)
         IN  IF base = <<>> THEN syllable
             ELSE IF rest = <<>> THEN base
             ELSE IF rest[1] \in {"i"} THEN base \o <<kudlit_i>>
             ELSE IF rest[1] \in {"o", "u"} THEN base \o <<kudlit_o>>
             ELSE base

syllable_to_baybayin(syllable) ==
    IF syllable = <<>> THEN <<>>
    ELSE IF Len(syllable) = 1 /\ syllable[1] \in DOMAIN vowels
         THEN <<vowels[syllable[1]]>>
    ELSE IF syllable \in DOMAIN consonants
         THEN <<consonants[syllable], virama>>
    ELSE LET ng == Len(syllable) >= 2 /\ syllable[1] = "n" /\ syllable[2] = "g"
             base == IF ng THEN <<consonants[<<"n", "g">>]>>
                     ELSE IF <<syllable[1]>> \in DOMAIN consonants
                          THEN <<consonants[<<syllable[1]>>]>>
                          ELSE <<>>
             rest == IF ng THEN SubSeq(syllable, 3, Len(syllable))
                     ELSE Tail(syllable)
         IN  IF base = <<>> THEN syllable
             ELSE IF rest = <<>> THEN base
             ELSE IF rest[1] \in {"i", "e"} THEN base \o <<kudlit_i>>
             ELSE IF rest[1] \in {"o", "u"} THEN base \o <<kudlit_o>>
             ELSE IF rest[1] = "a" THEN base
             ELSE base

----------------------------------------------------------------------------
\* transliterate, statement by statement

\* ''.join(list of strings)
RECURSIVE join_empty(_)
join_empty(parts) ==
    IF parts = <<>> THEN <<>> ELSE Head(parts) \o join_empty(Tail(parts))

\* ' '.join(list of strings)
RECURSIVE join_space(_)
join_space(parts) ==
    IF parts = <<>> THEN <<>>
    ELSE IF Len(parts) = 1 THEN Head(parts)
    ELSE Head(parts) \o <<" ">> \o join_space(Tail(parts))

\* a missing return value
empty_result_None == <<"None">>

\* the value of 'return ""'
empty_result == <<>>

InitT(Inputs) ==
    /\ text \in Inputs
    /\ pc = "start"
    /\ normalized = <<>>
    /\ words = <<>>
    /\ widx = 1
    /\ syllables = <<>>
    /\ baybayin_syllables = <<>>
    /\ baybayin_words = <<>>
    /\ result = <<>>

\* if not text: return ''
ReturnEmpty ==
    /\ pc = "start"
    /\ text = <<>>
    /\ result' = empty_result
    /\ pc' = "done"
    /\ UNCHANGED <<text, normalized, words, widx, syllables, baybayin_syllables,
                   baybayin_words>>
    /\ UNCHANGED <<avars, bvars>>

\* normalized = self.normalize_text(text)
Normalize ==
    /\ pc = "start"
    /\ text # <<>>
    /\ normalized' = normalize_text(text)
    /\ pc' = "split"
    /\ UNCHANGED <<text, words, widx, syllables, baybayin_syllables,
                   baybayin_words, result>>
    /\ UNCHANGED <<avars, bvars>>

\* words = normalized.split(); baybayin_words = []
SplitWords ==
    /\ pc = "split"
    /\ words' = split(normalized)
    /\ baybayin_words' = <<>>
    /\ widx' = 1
    /\ pc' = "loop"
    /\ UNCHANGED <<text, normalized, syllables, baybayin_syllables, result>>
    /\ UNCHANGED <<avars, bvars>>

\* for word in words: syllables = self.tokenize_syllables(word)
Tokenize ==
    /\ pc = "loop"
    /\ widx <= Len(words)
    /\ syllables' = tokenize_syllables(words[widx])
    /\ pc' = "convert"
    /\ UNCHANGED <<text, normalized, words, widx, baybayin_syllables,
                   baybayin_words, result>>
    /\ UNCHANGED <<avars, bvars>>

\* baybayin_syllables = [self.syllable_to_baybayin(syl) for syl in syllables]
Convert ==
    /\ pc = "convert"
    /\ baybayin_syllables' =
           [k \in 1..Len(syllables) |-> syllable_to_baybayin(syllables[k])]
    /\ pc' = "join"
    /\ UNCHANGED <<text, normalized, words, widx, syllables, baybayin_words,
                   result>>
    /\ UNCHANGED <<avars, bvars>>

\* baybayin_words.append(''.join(baybayin_syllables))
AppendWord ==
    /\ pc = "join"
    /\ baybayin_words' = Append(baybayin_words, join_empty(baybayin_syllables))
    /\ widx' = widx + 1
    /\ pc' = "loop"
    /\ UNCHANGED <<text, normalized, words, syllables, baybayin_syllables,
                   result>>
    /\ UNCHANGED <<avars, bvars>>

\* return ' '.join(baybayin_words)
ReturnJoined ==
    /\ pc = "loop"
    /\ widx > Len(words)
    /\ result' = join_space(baybayin_words)
    /\ pc' = "done"
    /\ UNCHANGED <<text, normalized, words, widx, syllables, baybayin_syllables,
                   baybayin_words>>
    /\ UNCHANGED <<avars, bvars>>

NextT ==
    \/ ReturnEmpty
    \/ Normalize
    \/ SplitWords
    \/ Tokenize
    \/ Convert
    \/ AppendWord
    \/ ReturnJoined

----------------------------------------------------------------------------
\* app.py: main's temporary audio file, over the reruns of the script

MaxRuns == 3

None == 0

InitA ==
    /\ apc = "idle"
    /\ audio_value = FALSE
    /\ uploaded_file = FALSE
    /\ audio_file_path = None
    /\ disk = {}
    /\ unlinked = <<>>
    /\ next_file = 1
    /\ runs = 0

\* One run of main starts: the widgets hold what the user recorded and
\* uploaded; audio_file_path = None
StartMain ==
    /\ apc = "idle"
    /\ runs < MaxRuns
    /\ runs' = runs + 1
    /\ audio_value' \in BOOLEAN
    /\ uploaded_file' \in BOOLEAN
    /\ audio_file_path' = None
    /\ apc' = "tab1"
    /\ UNCHANGED <<disk, unlinked, next_file>>
    /\ UNCHANGED <<tvars, bvars>>

\* with tab1: if audio_value: audio_file_path = save_audio_file(audio_bytes)
\* (NamedTemporaryFile(delete=False): a new file that stays on disk)
Tab1 ==
    /\ apc = "tab1"
    /\ IF audio_value
       THEN /\ disk' = disk \cup {next_file}
            /\ audio_file_path' = next_file
            /\ next_file' = next_file + 1
       ELSE UNCHANGED <<disk, audio_file_path, next_file>>
    /\ apc' = "tab2"
    /\ UNCHANGED <<audio_value, uploaded_file, unlinked, runs>>
    /\ UNCHANGED <<tvars, bvars>>

\* with tab2: if uploaded_file is not None:
\*     audio_file_path = save_audio_file(audio_bytes, file_extension=...)
Tab2 ==
    /\ apc = "tab2"
    /\ IF uploaded_file
       THEN /\ disk' = disk \cup {next_file}
            /\ audio_file_path' = next_file
            /\ next_file' = next_file + 1
       ELSE UNCHANGED <<disk, audio_file_path, next_file>>
    /\ apc' = "process"
    /\ UNCHANGED <<audio_value, uploaded_file, unlinked, runs>>
    /\ UNCHANGED <<tvars, bvars>>

\* if audio_file_path: is false; main goes on to the footer
NoAudio ==
    /\ apc = "process"
    /\ audio_file_path = None
    /\ apc' = "idle"
    /\ UNCHANGED <<audio_value, uploaded_file, audio_file_path, disk, unlinked,
                   next_file, runs>>
    /\ UNCHANGED <<tvars, bvars>>

\* model.transcribe(audio_file_path, ...) returns
TranscribeOk ==
    /\ apc = "process"
    /\ audio_file_path # None
    /\ apc' = "unlink"
    /\ UNCHANGED <<audio_value, uploaded_file, audio_file_path, disk, unlinked,
                   next_file, runs>>
    /\ UNCHANGED <<tvars, bvars>>

\* model.transcribe(audio_file_path, ...) raises
TranscribeRaises ==
    /\ apc = "process"
    /\ audio_file_path # None
    /\ apc' = "except"
    /\ UNCHANGED <<audio_value, uploaded_file, audio_file_path, disk, unlinked,
                   next_file, runs>>
    /\ UNCHANGED <<tvars, bvars>>

\* os.unlink(audio_file_path) after the transcription
Unlink ==
    /\ apc = "unlink"
    /\ disk' = disk \ {audio_file_path}
    /\ unlinked' = Append(unlinked, audio_file_path)
    /\ apc' = "display"
    /\ UNCHANGED <<audio_value, uploaded_file, audio_file_path, next_file, runs>>
    /\ UNCHANGED <<tvars, bvars>>

\* the warning, or to_baybayin and the display of the result, return
DisplayOk ==
    /\ apc = "display"
    /\ apc' = "idle"
    /\ UNCHANGED <<audio_value, uploaded_file, audio_file_path, disk, unlinked,
                   next_file, runs>>
    /\ UNCHANGED <<tvars, bvars>>

\* a call after the unlink raises
DisplayRaises ==
    /\ apc = "display"
    /\ apc' = "except"
    /\ UNCHANGED <<audio_value, uploaded_file, audio_file_path, disk, unlinked,
                   next_file, runs>>
    /\ UNCHANGED <<tvars, bvars>>

\* except Exception: if os.path.exists(audio_file_path): os.unlink(...)
Except ==
    /\ apc = "except"
    /\ IF audio_file_path \in disk
       THEN /\ disk' = disk \ {audio_file_path}
            /\ unlinked' = Append(unlinked, audio_file_path)
       ELSE UNCHANGED <<disk, unlinked>>
    /\ apc' = "idle"
    /\ UNCHANGED <<audio_value, uploaded_file, audio_file_path, next_file, runs>>
    /\ UNCHANGED <<tvars, bvars>>

NextA ==
    \/ StartMain
    \/ Tab1
    \/ Tab2
    \/ NoAudio
    \/ TranscribeOk
    \/ TranscribeRaises
    \/ Unlink
    \/ DisplayOk
    \/ DisplayRaises
    \/ Except

----------------------------------------------------------------------------
\* translate_gsm8k.py: main with --start 0 and no --end, run repeatedly on
\* one output file

DatasetSize == 3

MaxBatchRuns == 3

\* the values of the similarity score and of --threshold, as levels
Levels == {0, 1}

InitB(Scores) ==
    /\ bpc = "idle"
    /\ out_file = <<>>
    /\ threshold = 0
    /\ start_index = 0
    /\ idx = 0
    /\ processed = {}
    /\ processed_before = {}
    /\ similarity \in Scores
    /\ bruns = 0

\* start_index = args.start (0); if the output file exists and has
\* lines > 0 lines, start_index = lines (a file that does not exist and an
\* empty one both leave 0); open(args.output, "a"); the loop passes over
\* every i < start_index
StartBatch ==
    /\ bpc = "idle"
    /\ bruns < MaxBatchRuns
    /\ bruns' = bruns + 1
    /\ threshold' \in Levels
    /\ start_index' = IF Len(out_file) > 0 THEN Len(out_file) ELSE 0
    /\ idx' = start_index'
    /\ processed_before' = processed
    /\ bpc' = "loop"
    /\ UNCHANGED <<out_file, processed, similarity>>
    /\ UNCHANGED <<tvars, avars>>

\* if similarity < args.threshold: continue
SkipExample ==
    /\ bpc = "loop"
    /\ idx < DatasetSize
    /\ similarity[idx] < threshold
    /\ processed' = processed \cup {idx}
    /\ idx' = idx + 1
    /\ UNCHANGED <<bpc, out_file, threshold, start_index, processed_before,
                   similarity, bruns>>
    /\ UNCHANGED <<tvars, avars>>

\* f.write(json.dumps(output_data) + "\n"); f.flush()
WriteExample ==
    /\ bpc = "loop"
    /\ idx < DatasetSize
    /\ ~(similarity[idx] < threshold)
    /\ out_file' = Append(out_file, idx)
    /\ processed' = processed \cup {idx}
    /\ idx' = idx + 1
    /\ UNCHANGED <<bpc, threshold, start_index, processed_before, similarity,
                   bruns>>
    /\ UNCHANGED <<tvars, avars>>

\* the dataset is exhausted: "Translation complete."
FinishBatch ==
    /\ bpc = "loop"
    /\ idx >= DatasetSize
    /\ bpc' = "idle"
    /\ UNCHANGED <<out_file, threshold, start_index, idx, processed,
                   processed_before, similarity, bruns>>
    /\ UNCHANGED <<tvars, avars>>

\* the run is interrupted between two examples
InterruptBatch ==
    /\ bpc = "loop"
    /\ idx < DatasetSize
    /\ bpc' = "idle"
    /\ UNCHANGED <<out_file, threshold, start_index, idx, processed,
                   processed_before, similarity, bruns>>
    /\ UNCHANGED <<tvars, avars>>

NextB ==
    \/ StartBatch
    \/ SkipExample
    \/ WriteExample
    \/ FinishBatch
    \/ InterruptBatch

----------------------------------------------------------------------------
\* Specifications

NoScores == {[i \in 0..(DatasetSize - 1) |-> 0]}

AllScores == [0..(DatasetSize - 1) -> Levels]

\* transliterate on mixed input
Init == InitT(SeqsUpTo(Alphabet, MaxLen)) /\ InitA /\ InitB(NoScores)

Next == NextT

Spec == Init /\ [][Next]_vars

\* transliterate on the inputs of the normalizer
InitNorm == InitT(SeqsUpTo(NormAlphabet, MaxLenNorm)) /\ InitA /\ InitB(NoScores)

SpecNorm == InitNorm /\ [][Next]_vars

\* transliterate on words of native letters
InitNative ==
    InitT(SeqsUpTo(NativeAlphabet, MaxLenNative)) /\ InitA /\ InitB(NoScores)

SpecNative == InitNative /\ [][Next]_vars

\* transliterate on the letters that Baybayin does not tell apart
InitCollapse ==
    InitT(SeqsUpTo(CollapseAlphabet, MaxLenCollapse)) /\ InitA /\ InitB(NoScores)

SpecCollapse == InitCollapse /\ [][Next]_vars

\* the app's reruns of main
InitApp == InitT({<<>>}) /\ InitA /\ InitB(NoScores)

SpecApp == InitApp /\ [][NextA]_vars

\* the runs of the batch translation
InitBatch == InitT({<<>>}) /\ InitA /\ InitB(AllScores)

SpecBatch == InitBatch /\ [][NextB]_vars

----------------------------------------------------------------------------
\* Claims

BaybayinGlyphs ==
    {vowels[c] : c \in DOMAIN vowels} \cup {consonants[k] : k \in DOMAIN consonants}
        \cup {kudlit_i, kudlit_o, virama}

IsLetter(c) == c \in vowel_class \cup consonant_class

\* neither whitespace nor a letter of the tables
IsLiteral(c) == ~IsSpace(c) /\ ~IsLetter(c)

\* what is left of an output once glyphs and separators are taken out
NotGlyph(c) == c \notin BaybayinGlyphs /\ c # " "

\* C1 (coverage): the tokens of a word, concatenated in order, are the word:
\* no character is dropped, duplicated or reordered.
C1_Coverage ==
    pc = "convert" => join_empty(syllables) = words[widx]

\* C2 (literal pass-through): the characters of the normalized text that are
\* neither whitespace nor table letters appear unchanged, in order, in the
\* output.
C2_LiteralPassThrough ==
    pc = "done" /\ text # <<>> =>
        SelectSeq(result, NotGlyph) = SelectSeq(normalized, IsLiteral)

\* str.isupper() on one character of the input alphabets
IsUpper(c) == c \in {"A", "C", "J", "X", "NTILDE", "U2102"}

ForeignLetters == {"c", "f", "j", "q", "v", "x", "z", "ntilde"}

\* C3 as stated: normalizing twice is normalizing once, and the normalized
\* text holds no upper-case letter and no foreign letter.
C3_NormalizeNoUpper ==
    pc = "split" =>
        /\ normalize_text(normalized) = normalized
        /\ \A i \in 1..Len(normalized) :
               ~IsUpper(normalized[i]) /\ normalized[i] \notin ForeignLetters

\* C3 as amended: normalizing twice is normalizing once, and the normalized
\* text holds no character that str.lower() changes (an upper-case letter
\* without a lower-case mapping stays) and no foreign letter.
C3_NormalizeIdempotent ==
    pc = "split" =>
        /\ normalize_text(normalized) = normalized
        /\ \A i \in 1..Len(normalized) :
               Lower(normalized[i]) = normalized[i]
               /\ normalized[i] \notin ForeignLetters

C3_Witness ==
    /\ pc = "split"
    /\ text = <<"J", "X", "U2102">>
    /\ normalized = <<"d", "y", "k", "s", "U2102">>

\* the positions of s where a maximal run of non-whitespace starts / ends
WordStarts(s) ==
    {i \in 1..Len(s) : ~IsSpace(s[i]) /\ (i = 1 \/ IsSpace(s[i - 1]))}

WordEnds(s) ==
    {i \in 1..Len(s) : ~IsSpace(s[i]) /\ (i = Len(s) \/ IsSpace(s[i + 1]))}

\* the k-th smallest element of a set of numbers
Kth(S, k) == CHOOSE x \in S : Cardinality({y \in S : y <= x}) = k

\* the whitespace-separated words of s, in order
WordsOf(s) ==
    [k \in 1..Cardinality(WordStarts(s)) |->
        SubSeq(s, Kth(WordStarts(s), k), Kth(WordEnds(s), k))]

\* a word's result: tokenize, encode each token, concatenate
EncodeWord(w) ==
    LET toks == tokenize_syllables(w)
    IN  join_empty([k \in 1..Len(toks) |-> syllable_to_baybayin(toks[k])])

\* the first n parts with exactly one space between consecutive parts
RECURSIVE SpaceJoined(_, _)
SpaceJoined(parts, n) ==
    IF n = 0 THEN <<>>
    ELSE IF n = 1 THEN parts[1]
    ELSE SpaceJoined(parts, n - 1) \o <<" ">> \o parts[n]

\* C4 (word reassembly): the result is the per-word results of the
\* whitespace-separated words of the normalized text, in order, with exactly
\* one space between consecutive words.
C4_WordReassembly ==
    pc = "done" =>
        LET ws == WordsOf(normalize_text(text))
        IN  result = SpaceJoined([k \in 1..Len(ws) |-> EncodeWord(ws[k])], Len(ws))

C4_Witness ==
    /\ pc = "done"
    /\ text = <<"a", " ", "\t", "X">>
    /\ result = <<"U1700", " ", "U1703", "U1714", "U1710", "U1714">>

\* the whole of transliterate on an input
TransliterateOf(t) ==
    IF t = <<>> THEN <<>>
    ELSE LET ws == split(normalize_text(t))
         IN  join_space([k \in 1..Len(ws) |-> EncodeWord(ws[k])])

\* the other letter of the pairs l/r, e/i, o/u
Partner(c) ==
    CASE c = "l" -> "r"
      [] c = "r" -> "l"
      [] c = "e" -> "i"
      [] c = "i" -> "e"
      [] c = "o" -> "u"
      [] c = "u" -> "o"
      [] OTHER -> c

\* t with the letters at any set of positions replaced by their partners
Variants(t) ==
    {[i \in 1..Len(t) |-> IF i \in S THEN Partner(t[i]) ELSE t[i]] :
        S \in SUBSET (1..Len(t))}

\* C5 (many-to-one collapse): replacing occurrences of l by r, e by i, o by u
\* (or the reverse) does not change the result.
C5_Collapse ==
    pc = "done" => \A t \in Variants(text) : TransliterateOf(t) = result

C5_Witness ==
    /\ pc = "done"
    /\ text = <<"l", "o", "e">>
    /\ result = <<"U170D", "U1713", "U1701">>
    /\ <<"r", "u", "i">> \in Variants(text)

\* C6 (empty and whitespace-only input): the empty text gives the empty
\* result, and a text of whitespace only gives an empty or whitespace-only
\* result.
C6_EmptyAndWhitespace ==
    pc = "done" =>
        /\ text = <<>> => result = <<>>
        /\ (\A i \in 1..Len(text) : IsSpace(text[i])) =>
               (\A j \in 1..Len(result) : IsSpace(result[j]))

C6_Witness ==
    /\ pc = "done"
    /\ text = <<" ", "\t", " ">>
    /\ result = <<>>

\* Ordered choice without backtracking: the consonant unit is the digraph
\* when it is there, else the single consonant; CV if a vowel follows the
\* unit, else V, else the unit alone.
RECURSIVE OrderedChoice(_, _)
OrderedChoice(w, i) ==
    IF i > Len(w) THEN <<>>
    ELSE LET digraph == i < Len(w) /\ w[i] = "n" /\ w[i + 1] = "g"
             unit == IF digraph THEN 2 ELSE IF w[i] \in consonant_class THEN 1 ELSE 0
             n == IF unit > 0 /\ i + unit <= Len(w) /\ w[i + unit] \in vowel_class
                  THEN unit + 1
                  ELSE IF w[i] \in vowel_class THEN 1
                  ELSE unit
         IN  <<SubSeq(w, i, i + n - 1)>> \o OrderedChoice(w, i + n)

\* C7 (ordered-choice tokenization): on a word of native letters the tokens
\* are those of the CV, V, C first-match scan with "ng" tried before "n";
\* "sta" gives s, ta; "nga" gives nga; "ng" before a non-vowel gives ng.
C7_OrderedChoice ==
    pc = "convert" /\ (\A i \in 1..Len(words[widx]) : IsLetter(words[widx][i])) =>
        /\ syllables = OrderedChoice(words[widx], 1)
        /\ words[widx] = <<"s", "t", "a">> => syllables = << <<"s">>, <<"t", "a">> >>
        /\ words[widx] = <<"n", "g", "a">> => syllables = << <<"n", "g", "a">> >>
        /\ words[widx] = <<"n", "g", "s">> => syllables = << <<"n", "g">>, <<"s">> >>
        /\ words[widx] = <<"n", "g">> => syllables = << <<"n", "g">> >>

C7_Witness ==
    /\ pc = "convert"
    /\ words[widx] = <<"s", "t", "a", "n">>
    /\ syllables = << <<"s">>, <<"t", "a">>, <<"n">> >>

\* the consonant unit of a token: the digraph when the token starts with it
UnitOf(tok) ==
    IF Len(tok) >= 2 /\ tok[1] = "n" /\ tok[2] = "g" THEN <<"n", "g">> ELSE <<tok[1]>>

\* the glyphs the encoding rules give for a token of shape V, C or CV
GlyphsByShape(tok) ==
    LET unit == UnitOf(tok)
        v == tok[Len(tok)]
    IN  IF Len(tok) = 1 /\ tok[1] \in vowel_class THEN <<vowels[tok[1]]>>
        ELSE IF tok = unit THEN <<consonants[unit], "U1714">>
        ELSE CASE v = "a" -> <<consonants[unit]>>
               [] v \in {"i", "e"} -> <<consonants[unit], "U1712">>
               [] v \in {"o", "u"} -> <<consonants[unit], "U1713">>

BaseGlyphs == {consonants[k] : k \in DOMAIN consonants}

\* C8 (encoding by token shape): each token of the tokenizer is encoded by
\* its shape, and a virama or kudlit always follows a base consonant glyph.
C8_EncodingByShape ==
    pc = "join" =>
        /\ \A k \in 1..Len(syllables) :
               baybayin_syllables[k] = GlyphsByShape(syllables[k])
        /\ LET out == join_empty(baybayin_syllables)
           IN  \A j \in 1..Len(out) :
                   out[j] \in {"U1712", "U1713", "U1714"} =>
                       j > 1 /\ out[j - 1] \in BaseGlyphs

C8_Witness ==
    /\ pc = "join"
    /\ syllables = << <<"n", "g", "e">>, <<"s">> >>
    /\ baybayin_syllables = << <<"U1705", "U1712">>, <<"U1710", "U1714">> >>

\* C9 (temporary-file cleanup): when a run of main has ended, every
\* temporary file it created has been deleted, and no file was deleted twice.
C9_TempFilesDeleted ==
    /\ apc = "idle" => disk = {}
    /\ \A a, b \in 1..Len(unlinked) : a # b => unlinked[a] # unlinked[b]

\* the smallest dataset index outside S
FirstNotIn(S) == CHOOSE n \in 0..DatasetSize : n \notin S /\ \A m \in 0..(n - 1) : m \in S

\* C10 (auto-resume): the output file never holds two records of one dataset
\* index, and every run starts at the first index no earlier run processed.
C10_Resume ==
    /\ \A a, b \in 1..Len(out_file) : a # b => out_file[a] # out_file[b]
    /\ bpc = "loop" => start_index = FirstNotIn(processed_before)

====
